---- MODULE Spec2Model ----
(***************************************************************************)
(* Telephone skills assessment: the call-flow session state machine of     *)
(* webhook_simple.py, the scoring run of assessment_processor_simple.py    *)
(* and its update of the global assessment index.                          *)
(*                                                                         *)
(* Spec is the call flow of one assessment with a reliable session store.  *)
(* SpecFault is the call flow with every callback delivered once and an    *)
(* operation of the store, of the request decoding or of the processor     *)
(* invocation failing.  SpecScore is one scoring run on a stored session,  *)
(* with the outcomes of each transcription and of the model call and at    *)
(* most one failing store operation as inputs.  SpecRerun is a sequence of *)
(* scoring runs on one session.  SpecIndex is a series of index updates,   *)
(* SpecConcurrent is index updates whose reads and writes interleave.      *)
(***************************************************************************)
EXTENDS Integers, Sequences, FiniteSets, TLC

VARIABLES
    role,        \* skill_type carried by every callback URL of the call
    session,     \* assessments/{id}/state.json, or NoSession
    now,         \* datetime.utcnow(): one tick for every callback handled
    lastCall,    \* the callback handled last
    directive,   \* the reply to lastCall
    live,        \* the document the telephony provider is executing
    nreplays,    \* callbacks delivered a second time
    invoked,     \* asynchronous invocations of the assessment processor
    run,         \* the scoring run handled last
    result,      \* assessments/{id}/analysis_results.json, or NoResult
    index,       \* assessments_index.json, or NoIndex
    lastUpdate,  \* the index update handled last
    nfaults,     \* callbacks in which a store or service operation failed
    jobs,        \* questions with a completed transcription job
    updaters,    \* index updates in progress: what each has read
    handlers,    \* recording callbacks in progress: what each has read
    poll         \* the wait for one transcription job

vars == <<role, session, now, lastCall, directive, live, nreplays, invoked,
          run, result, index, lastUpdate, nfaults, jobs, updaters, handlers,
          poll>>

callVars  == <<role, session, now, lastCall, directive, live, nreplays,
               invoked, nfaults>>
scoreVars == <<run, result, jobs>>
indexVars == <<index, lastUpdate, updaters>>
waitVars  == <<handlers, poll>>

----------------------------------------------------------------------------
(* Bounds *)

MaxCalls == 11    \* telephony callbacks handled on one call
MaxReplays == 1   \* of these, callbacks delivered a second time
MaxFaults == 1    \* of these, callbacks in which an operation failed

----------------------------------------------------------------------------
(* Question catalogue: the inline templates of load_assessment_templates *)

ASSESSMENT_TEMPLATES ==
    [ bartender |->
        << "intro", "experience_1", "experience_2", "experience_3",
           "knowledge_glassware_1", "knowledge_glassware_2",
           "knowledge_margarita", "knowledge_old_fashioned",
           "knowledge_tools", "knowledge_service", "goodbye" >>,
      banquet_server |->
        << "intro", "experience_1", "experience_2", "experience_3",
           "knowledge_setup", "knowledge_wine", "knowledge_clearing",
           "knowledge_scenario", "english_greeting", "english_complaint",
           "goodbye" >>,
      host |->
        << "intro", "experience_1", "experience_2", "experience_3",
           "knowledge_pos", "knowledge_seating", "knowledge_phone",
           "knowledge_reservation", "knowledge_walkin", "goodbye" >> ]

Roles == DOMAIN ASSESSMENT_TEMPLATES

NoQuestion == ""    \* None, or an absent question parameter
NoUrl      == 0     \* an absent RecordingUrl parameter
NoTime     == 0     \* a timestamp key that is not in the document

SHORT_TIMEOUT == 5      \* <Record timeout="5">
LONG_TIMEOUT  == 120    \* <Record timeout="120">

Digits        == {"", "#", "*"}
Durations     == {5, 12}

----------------------------------------------------------------------------
(* Session store *)

NoSession ==
    [ exists |-> FALSE, questions_sequence |-> <<>>,
      current_question_index |-> 0, responses |-> <<>>,
      status |-> "none", created_at |-> NoTime, completed_at |-> NoTime ]

NoCall == [kind |-> "none", replay |-> FALSE, question |-> NoQuestion,
           window |-> 0, digits |-> "", recording_url |-> NoUrl,
           duration |-> 0, fault |-> "none"]

\* get_assessment_state: the stored document, or a new one that is saved
get_assessment_state(store, skill, t) ==
    IF store.exists THEN store
    ELSE [ exists |-> TRUE,
           questions_sequence |-> ASSESSMENT_TEMPLATES[skill],
           current_question_index |-> 0,
           responses |-> <<>>,
           status |-> "in_progress",
           created_at |-> t,
           completed_at |-> NoTime ]

\* what goes wrong while one callback is handled: nothing; get_object of
\* the handler's read raises something other than NoSuchKey ("read"), or
\* that of generate_completion_twiml's read does ("mark_read"); every
\* put_object fails ("write"); the invocation of the processor raises
\* ("invoke"); the body cannot be decoded ("body"); the request has no
\* assessment_id ("no_id")
CallFaults == {"none", "read", "mark_read", "write", "invoke", "body", "no_id"}

\* save_assessment_state: put_object of the whole document; a failure is
\* logged and the caller goes on
save_assessment_state(store, state, fault) ==
    IF fault = "write" THEN store ELSE state

\* the document stored when get_assessment_state has returned
get_assessment_store(store, skill, fault, t) ==
    IF store.exists THEN store
    ELSE save_assessment_state(store, get_assessment_state(store, skill, t),
                               fault)

get_current_question(state) ==
    IF state.current_question_index < Len(state.questions_sequence)
    THEN state.questions_sequence[state.current_question_index + 1]
    ELSE NoQuestion

advance_to_next_question(state) ==
    [state EXCEPT !.current_question_index = @ + 1]

----------------------------------------------------------------------------
(* Directives: the TwiML documents, verb by verb *)

Play(audio)   == [verb |-> "Play", arg |-> audio, timeout |-> 0,
                  question |-> NoQuestion, finish |-> ""]
Pause         == [verb |-> "Pause", arg |-> "", timeout |-> 0,
                  question |-> NoQuestion, finish |-> ""]
Say(msg)      == [verb |-> "Say", arg |-> msg, timeout |-> 0,
                  question |-> NoQuestion, finish |-> ""]
Hangup        == [verb |-> "Hangup", arg |-> "", timeout |-> 0,
                  question |-> NoQuestion, finish |-> ""]
Record(timeout, q, finish) ==
    [verb |-> "Record", arg |-> "", timeout |-> timeout,
     question |-> q, finish |-> finish]

Twiml(kind, verbs) ==
    [statusCode |-> 200, content |-> "application/xml", kind |-> kind,
     verbs |-> verbs]

NoDirective ==
    [statusCode |-> 0, content |-> "", kind |-> "none", verbs |-> <<>>]

\* an exception on its way out of a handler
Raise ==
    [statusCode |-> 0, content |-> "", kind |-> "exception", verbs |-> <<>>]

create_twiml_response(message, hangup) ==
    [statusCode |-> 200, content |-> "text/xml", kind |-> "say",
     verbs |-> <<Say(message)>> \o (IF hangup THEN <<Hangup>> ELSE <<>>)]

create_error_response(status_code) ==
    [statusCode |-> status_code, content |-> "application/json",
     kind |-> "error", verbs |-> <<>>]

CompletionTwiml == Twiml("completion", << Play("goodbye"), Hangup >>)

IntroTwiml(next_question) ==
    Twiml("intro",
          << Play("intro"), Pause, Play(next_question),
             Record(SHORT_TIMEOUT, next_question, "#*"),
             Play("instructions"),
             Record(LONG_TIMEOUT, next_question, "#*"),
             Say("no_response"), Hangup >>)

QuestionTwiml(question_key) ==
    Twiml("question",
          << Play(question_key),
             Record(SHORT_TIMEOUT, question_key, "#*"),
             Say("no_response"), Hangup >>)

TimeoutTwiml(current_question) ==
    Twiml("timeout",
          << Play("instructions"),
             Record(LONG_TIMEOUT, current_question, "#*"),
             Say("no_response"), Hangup >>)

RepeatTwiml(current_question) ==
    Twiml("repeat",
          << Play(current_question),
             Record(SHORT_TIMEOUT, current_question, "#*"),
             Play("instructions"),
             Record(LONG_TIMEOUT, current_question, "#*"),
             Say("no_response"), Hangup >>)

ContinueTwiml(current_question) ==
    Twiml("continue",
          << Record(SHORT_TIMEOUT, current_question, "#"),
             Say("no_response"), Hangup >>)

\* the recording actions a directive names: (question, window)
RecordingActions(d) ==
    { [question |-> d.verbs[i].question, window |-> d.verbs[i].timeout] :
        i \in { j \in DOMAIN d.verbs : d.verbs[j].verb = "Record" } }

----------------------------------------------------------------------------
(* Handlers.  Each returns the stored document, the reply and the number   *)
(* of processor invocations it fired.                                      *)

Reply(store, d, fired) == [store |-> store, twiml |-> d, fired |-> fired]

generate_completion_twiml_fresh(store, skill, fault, t) ==
    LET state == get_assessment_state(NoSession, skill, t)
        done  == [state EXCEPT !.status = "completed", !.completed_at = t]
    IN  Reply(save_assessment_state(store, done, fault), CompletionTwiml, 1)

generate_completion_twiml_unguarded(store, skill, fault, t) ==
    IF fault \in {"mark_read", "invoke"} THEN Reply(store, Raise, 0)
    ELSE LET state == get_assessment_state(store, skill, t)
             base  == get_assessment_store(store, skill, fault, t)
             done  == [state EXCEPT !.status = "completed",
                                    !.completed_at = t]
         IN  Reply(save_assessment_state(base, done, fault), CompletionTwiml, 1)

\* the inner try block marks the session and fires the processor; whatever
\* it raises is logged and the directive is returned
generate_completion_twiml(store, skill, fault, t) ==
    IF fault = "mark_read" THEN Reply(store, CompletionTwiml, 0)
    ELSE LET state == get_assessment_state(store, skill, t)
             base  == get_assessment_store(store, skill, fault, t)
             done  == [state EXCEPT !.status = "completed",
                                    !.completed_at = t]
         IN  Reply(save_assessment_state(base, done, fault), CompletionTwiml,
                   IF fault = "invoke" THEN 0 ELSE 1)

generate_question_twiml_records_intro(store, skill, question_key, state, fault, t) ==
    IF question_key \in {NoQuestion, "goodbye"}
    THEN generate_completion_twiml(store, skill, fault, t)
    ELSE Reply(store, QuestionTwiml(question_key), 0)

generate_question_twiml(store, skill, question_key, state, fault, t) ==
    IF question_key = NoQuestion
    THEN generate_completion_twiml(store, skill, fault, t)
    ELSE IF question_key = "intro"
    THEN LET next_state    == advance_to_next_question(state)
             saved         == save_assessment_state(store, next_state, fault)
             next_question == get_current_question(next_state)
         IN  IF next_question # NoQuestion
             THEN Reply(saved, IntroTwiml(next_question), 0)
             ELSE generate_completion_twiml(saved, skill, fault, t)
    ELSE IF question_key = "goodbye"
    THEN generate_completion_twiml(store, skill, fault, t)
    ELSE Reply(store, QuestionTwiml(question_key), 0)

\* the try block of handle_initial_webhook
initial_webhook_try(store, skill, fault, t) ==
    IF fault = "no_id"
    THEN Reply(store, create_twiml_response("id_missing", TRUE), 0)
    ELSE IF fault = "read" THEN Reply(store, Raise, 0)
    ELSE LET state            == get_assessment_state(store, skill, t)
             base             == get_assessment_store(store, skill, fault, t)
             current_question == get_current_question(state)
         IN  generate_question_twiml(base, skill, current_question, state,
                                     fault, t)

handle_initial_webhook(store, skill, fault, t) ==
    LET r == initial_webhook_try(store, skill, fault, t)
    IN  IF r.twiml = Raise
        THEN Reply(r.store, create_twiml_response("error", TRUE), r.fired)
        ELSE r

is_timeout_below(digits, duration) == duration < SHORT_TIMEOUT /\ digits = ""

\* "recording duration equals timeout (5 seconds) and no digits pressed"
is_timeout(digits, duration) == duration = SHORT_TIMEOUT /\ digits = ""

accept_recording_twice(store, state, skill, current_question, recording_url, fault, t) ==
    LET next_state == advance_to_next_question(advance_to_next_question(state))
    IN  generate_question_twiml(save_assessment_state(store, next_state, fault),
                                skill, get_current_question(next_state),
                                next_state, fault, t)

accept_recording_reopens(store, state, skill, current_question, recording_url, fault, t) ==
    LET recorded ==
          IF recording_url # NoUrl /\ current_question # NoQuestion
          THEN [state EXCEPT !.responses =
                  (current_question :>
                      [recording_url |-> recording_url, timestamp |-> t])
                  @@ @]
          ELSE state
        next_state    == [advance_to_next_question(recorded)
                            EXCEPT !.status = "in_progress"]
        next_question == get_current_question(next_state)
        saved         == save_assessment_state(store, next_state, fault)
    IN  generate_question_twiml(saved, skill, next_question, next_state,
                                fault, t)

\* the tail of handle_recording_completion: store the response, advance,
\* save, reply with the next question
accept_recording(store, state, skill, current_question, recording_url, fault, t) ==
    LET recorded ==
          IF recording_url # NoUrl /\ current_question # NoQuestion
          THEN [state EXCEPT !.responses =
                  (current_question :>
                      [recording_url |-> recording_url, timestamp |-> t])
                  @@ @]
          ELSE state
        next_state    == advance_to_next_question(recorded)
        next_question == get_current_question(next_state)
        saved         == save_assessment_state(store, next_state, fault)
    IN  generate_question_twiml(saved, skill, next_question, next_state,
                                fault, t)

star_repeat_completes(store, state, skill, current_question, recording_url, fault, t) ==
    generate_completion_twiml(store, skill, fault, t)

star_repeat_accepts(store, state, skill, current_question, recording_url, fault, t) ==
    accept_recording(store, state, skill, current_question, recording_url,
                     fault, t)

\* the star branch of handle_recording_completion
star_repeat(store, state, skill, current_question, recording_url, fault, t) ==
    generate_question_twiml(store, skill, current_question, state, fault, t)

\* handle_recording_completion after its read of the session: state is
\* what it read, base is what the store holds when it goes on
recording_completion_tail(base, state, skill, question, digits, url, duration, fault, t) ==
    IF digits = "*"
    THEN star_repeat(base, state, skill, question, url, fault, t)
    ELSE IF is_timeout(digits, duration)
    THEN Reply(base, TimeoutTwiml(question), 0)
    ELSE accept_recording(base, state, skill, question, url, fault, t)

\* the try block of handle_recording_completion
recording_completion_try(store, skill, question, digits, url, duration, fault, t) ==
    IF fault \in {"body", "read"} THEN Reply(store, Raise, 0)
    ELSE LET state == get_assessment_state(store, skill, t)
             base  == get_assessment_store(store, skill, fault, t)
         IN  recording_completion_tail(base, state, skill, question, digits,
                                       url, duration, fault, t)

handle_recording_completion_uncaught(store, skill, question, digits, url, duration, fault, t) ==
    recording_completion_try(store, skill, question, digits, url, duration,
                             fault, t)

handle_recording_completion(store, skill, question, digits, url, duration, fault, t) ==
    LET r == recording_completion_try(store, skill, question, digits, url,
                                      duration, fault, t)
    IN  IF r.twiml = Raise
        THEN Reply(r.store, create_twiml_response("processing", TRUE), r.fired)
        ELSE r

\* the try block of handle_gather_response
gather_response_try(store, current_question, digits, fault) ==
    IF fault = "body" THEN Reply(store, Raise, 0)
    ELSE IF digits = "*"
    THEN Reply(store, RepeatTwiml(current_question), 0)
    ELSE Reply(store, ContinueTwiml(current_question), 0)

handle_gather_response(store, current_question, digits, fault) ==
    LET r == gather_response_try(store, current_question, digits, fault)
    IN  IF r.twiml = Raise
        THEN Reply(r.store, create_twiml_response("continue", FALSE), r.fired)
        ELSE r

\* handle_http_request: the handler of the callback's path; what a handler
\* raises becomes the JSON error response
handle_http_request(store, skill, call, fault, t) ==
    LET r == CASE call.kind = "initial" ->
                    handle_initial_webhook(store, skill, fault, t)
               [] call.kind = "recording" ->
                    handle_recording_completion(store, skill, call.question,
                        call.digits, call.recording_url, call.duration,
                        fault, t)
               [] call.kind = "gather" ->
                    handle_gather_response(store, call.question, call.digits,
                                           fault)
    IN  IF r.twiml = Raise
        THEN Reply(r.store, create_error_response(500), r.fired)
        ELSE r

----------------------------------------------------------------------------
(* Scoring run: assessment_processor_simple.py *)

Categories == <<"baseline", "experience", "knowledge">>

SCORING_CATEGORIES_overlapping ==
    [ banquet_server |->
        [ baseline   |-> {"english_greeting", "english_complaint"},
          experience |-> {"experience_1", "experience_2", "experience_3"},
          knowledge  |-> {"knowledge_setup", "knowledge_wine",
                          "knowledge_clearing", "knowledge_scenario"} ],
      bartender |->
        [ baseline   |-> {"knowledge_service"},
          experience |-> {"experience_1", "experience_2", "experience_3"},
          knowledge  |-> {"knowledge_glassware_1", "knowledge_glassware_2",
                          "knowledge_margarita", "knowledge_old_fashioned",
                          "knowledge_tools", "knowledge_service"} ],
      host |->
        [ baseline   |-> {"knowledge_phone", "knowledge_reservation"},
          experience |-> {"experience_1", "experience_2", "experience_3"},
          knowledge  |-> {"knowledge_pos", "knowledge_seating",
                          "knowledge_walkin"} ] ]

\* 'questions' of the scoring_categories of each role
SCORING_CATEGORIES ==
    [ banquet_server |->
        [ baseline   |-> {"english_greeting", "english_complaint"},
          experience |-> {"experience_1", "experience_2", "experience_3"},
          knowledge  |-> {"knowledge_setup", "knowledge_wine",
                          "knowledge_clearing", "knowledge_scenario"} ],
      bartender |->
        [ baseline   |-> {"knowledge_service"},
          experience |-> {"experience_1", "experience_2", "experience_3"},
          knowledge  |-> {"knowledge_glassware_1", "knowledge_glassware_2",
                          "knowledge_margarita", "knowledge_old_fashioned",
                          "knowledge_tools"} ],
      host |->
        [ baseline   |-> {"knowledge_phone", "knowledge_reservation"},
          experience |-> {"experience_1", "experience_2", "experience_3"},
          knowledge  |-> {"knowledge_pos", "knowledge_seating",
                          "knowledge_walkin"} ] ]

build_assessment_prompt_answered(transcripts, skill_type) ==
    {q \in DOMAIN transcripts :
        /\ \E c \in DOMAIN SCORING_CATEGORIES[skill_type] :
             q \in SCORING_CATEGORIES[skill_type][c]
        /\ transcripts[q] \notin {"[TRANSCRIPTION_FAILED]",
                                  "[TRANSCRIPTION_ERROR]"}}

\* build_assessment_prompt_simple: the questions whose transcript the prompt
\* of the one converse request carries
build_assessment_prompt_simple(transcripts, skill_type) ==
    {q \in DOMAIN transcripts :
        \E c \in DOMAIN SCORING_CATEGORIES[skill_type] :
          q \in SCORING_CATEGORIES[skill_type][c]}

\* question_key.split('_') for every question of the catalogue
KeyWords ==
    [ english_greeting |-> <<"english", "greeting">>,
      english_complaint |-> <<"english", "complaint">>,
      experience_1 |-> <<"experience", "1">>,
      experience_2 |-> <<"experience", "2">>,
      experience_3 |-> <<"experience", "3">>,
      knowledge_setup |-> <<"knowledge", "setup">>,
      knowledge_wine |-> <<"knowledge", "wine">>,
      knowledge_clearing |-> <<"knowledge", "clearing">>,
      knowledge_scenario |-> <<"knowledge", "scenario">>,
      knowledge_service |-> <<"knowledge", "service">>,
      knowledge_glassware_1 |-> <<"knowledge", "glassware", "1">>,
      knowledge_glassware_2 |-> <<"knowledge", "glassware", "2">>,
      knowledge_margarita |-> <<"knowledge", "margarita">>,
      knowledge_old_fashioned |-> <<"knowledge", "old", "fashioned">>,
      knowledge_tools |-> <<"knowledge", "tools">>,
      knowledge_phone |-> <<"knowledge", "phone">>,
      knowledge_reservation |-> <<"knowledge", "reservation">>,
      knowledge_pos |-> <<"knowledge", "pos">>,
      knowledge_seating |-> <<"knowledge", "seating">>,
      knowledge_walkin |-> <<"knowledge", "walkin">> ]

\* the keys of 'knowledge_checks' of each role, in the order of the dict
KNOWLEDGE_CHECKS ==
    [ banquet_server |->
        << <<"place", "setting">>,
           <<"wine", "service">>,
           <<"clearing">>,
           <<"guest", "scenario">> >>,
      bartender |->
        << <<"glassware", "1">>,
           <<"glassware", "2">>,
           <<"margarita">>,
           <<"old", "fashioned">>,
           <<"tools">>,
           <<"responsible", "service">> >>,
      host |->
        << <<"pos">>,
           <<"seating">>,
           <<"phone">>,
           <<"reservation">>,
           <<"walkin">> >> ]

\* the keys of 'english_communication' of each role
ENGLISH_COMMUNICATION ==
    [ banquet_server |->
        << <<"greeting">>,
           <<"complaint">> >>,
      bartender |-> << >>,
      host |-> << >> ]

\* "question_key.endswith(check_key) or check_key in question_key", on the
\* words of the two keys
key_matches(question_key, check_key) ==
    LET q == KeyWords[question_key]
    IN  \E i \in 1..Len(q) :
          /\ i + Len(check_key) - 1 <= Len(q)
          /\ SubSeq(q, i, i + Len(check_key) - 1) = check_key

\* the first entry of the table that matches the question, 0 for none
first_match(entries, question_key) ==
    IF \E i \in DOMAIN entries : key_matches(question_key, entries[i])
    THEN CHOOSE i \in DOMAIN entries :
           /\ key_matches(question_key, entries[i])
           /\ \A j \in 1..(i - 1) : ~ key_matches(question_key, entries[j])
    ELSE 0

\* the "Experience questions" branch: no entry of the catalogue
GenericRubric == [source |-> "generic", key |-> << >>]

\* question_details of build_assessment_prompt_simple: the entry whose
\* question, ideal, acceptable and red_flag texts the prompt carries
question_details(skill_type, question_key) ==
    LET kc == first_match(KNOWLEDGE_CHECKS[skill_type], question_key)
        ec == first_match(ENGLISH_COMMUNICATION[skill_type], question_key)
    IN  IF ec # 0
        THEN [source |-> "english_communication",
              key |-> ENGLISH_COMMUNICATION[skill_type][ec]]
        ELSE IF kc # 0
        THEN [source |-> "knowledge_checks",
              key |-> KNOWLEDGE_CHECKS[skill_type][kc]]
        ELSE GenericRubric

\* the rubric of every question of the prompt
prompt_rubrics(transcripts, skill_type) ==
    [q \in build_assessment_prompt_simple(transcripts, skill_type) |->
        question_details(skill_type, q)]

PASS_THRESHOLD == 70    \* "category_data.get('percentage', 0) >= 70"

NoPercentages == [c \in {Categories[i] : i \in 1..3} |-> 0]

\* A JSON value, by what the processor looks at: its type, its truth value,
\* and for an object the model's own recommendation ("" when the key is
\* absent) and the category percentages.
\* An object whose category_scores hold data for the categories in scored:
\* the percentage of category c is pct[c] + tenths[c] / 10.
JsonScores(rec, pct, tenths, scored) ==
    [type |-> "object", truthy |-> TRUE, recommendation |-> rec,
     percentage |-> pct, tenths |-> tenths, scored |-> scored]

JsonObject(rec, pct) ==
    JsonScores(rec, pct, NoPercentages, {Categories[i] : i \in 1..3})

JsonOther(type, truthy) ==
    [type |-> type, truthy |-> truthy, recommendation |-> "",
     percentage |-> NoPercentages, tenths |-> NoPercentages, scored |-> {}]

JsonInvalid == JsonOther("invalid", FALSE)   \* JSONDecodeError, or None

\* The model's reply: the whole text is a JSON document (raw), or prose
\* around a ```json fenced block holding json (fenced), or plain prose.
Text(form, json) == [form |-> form, json |-> json]

NoText == Text("none", JsonInvalid)

json_loads(text) == IF text.form = "raw" THEN text.json ELSE JsonInvalid

\* re.search(r'```json\n(.*?)\n```') and json.loads of its group
fenced_json(text) == IF text.form = "fenced" THEN text.json ELSE JsonInvalid

\* analyze_with_llm_simple, "Try to parse as JSON": analysis_json
parse_analysis(text) ==
    IF json_loads(text).type # "invalid" THEN json_loads(text)
    ELSE fenced_json(text)

NoAnalysis ==
    [shape |-> "none", overall_recommendation |-> "",
     overall_assessment |-> [recommendation |-> ""],
     category_breakdown |-> [c \in {Categories[i] : i \in 1..3} |->
                                [percentage |-> 0, status |-> ""]],
     raw_analysis |-> NoText]

\* "category_scores.get(category_key, {}).get('percentage', 0)", in tenths
\* of a percent
category_percentage(analysis_json, c) ==
    IF c \in analysis_json.scored
    THEN 10 * analysis_json.percentage[c] + analysis_json.tenths[c]
    ELSE 0

\* f"{percentage:.0f}": the nearest whole number, a half to the even one
format_percentage(t) ==
    LET whole == t \div 10
        rest  == t % 10
    IN  IF rest > 5 \/ (rest = 5 /\ whole % 2 = 1) THEN whole + 1 ELSE whole

format_analysis_for_humans_above(analysis_json) ==
    IF analysis_json.type = "object"
    THEN [NoAnalysis EXCEPT
            !.shape = "formatted",
            !.overall_assessment =
                [recommendation |->
                    IF analysis_json.recommendation = "" THEN "REVIEW"
                    ELSE analysis_json.recommendation],
            !.category_breakdown =
                [c \in {Categories[i] : i \in 1..3} |->
                    [percentage |->
                        format_percentage(category_percentage(analysis_json, c)),
                     status |->
                        IF category_percentage(analysis_json, c)
                             > 10 * PASS_THRESHOLD
                        THEN "PASS" ELSE "BELOW 70%"]]]
    ELSE [NoAnalysis EXCEPT !.shape = analysis_json.type]

\* format_analysis_for_humans: a dict is formatted; on anything else .get
\* raises inside the try and the value is returned as it is
format_analysis_for_humans(analysis_json) ==
    IF analysis_json.type = "object"
    THEN [NoAnalysis EXCEPT
            !.shape = "formatted",
            !.overall_assessment =
                [recommendation |->
                    IF analysis_json.recommendation = "" THEN "REVIEW"
                    ELSE analysis_json.recommendation],
            !.category_breakdown =
                [c \in {Categories[i] : i \in 1..3} |->
                    [percentage |->
                        format_percentage(category_percentage(analysis_json, c)),
                     status |->
                        IF category_percentage(analysis_json, c)
                             >= 10 * PASS_THRESHOLD
                        THEN "PASS" ELSE "BELOW 70%"]]]
    ELSE [NoAnalysis EXCEPT !.shape = analysis_json.type]

\* analyze_with_llm_simple: llm is the reply of bedrock_client.converse
analyze_with_llm_simple(llm) ==
    IF llm.raises
    THEN [success |-> FALSE, analysis |-> NoAnalysis]
    ELSE IF parse_analysis(llm.text).truthy
    THEN [success |-> TRUE,
          analysis |-> format_analysis_for_humans(parse_analysis(llm.text))]
    ELSE [success |-> TRUE,
          analysis |-> [NoAnalysis EXCEPT !.shape = "degraded",
                                          !.overall_recommendation = "REVIEW",
                                          !.raw_analysis = llm.text]]

IsDict(analysis) == analysis.shape \in {"formatted", "degraded"}

\* "analysis['analysis'].get('overall_recommendation', 'REVIEW')"
top_recommendation(analysis) ==
    IF analysis.overall_recommendation = "" THEN "REVIEW"
    ELSE analysis.overall_recommendation

----------------------------------------------------------------------------
(* Transcription of one recording: what the download, the job lookup, the  *)
(* job and its transcript file come to.                                    *)

Outcome(fetch, existing, job, text) ==
    [fetch |-> fetch, existing |-> existing, job |-> job, text |-> text]

\* no wait in progress
NoPoll ==
    [pc |-> "none", question |-> 0, existing |-> FALSE, checks |-> 0,
     elapsed |-> 0]

TRANSCRIPTION_FAILED == "[TRANSCRIPTION_FAILED]"
TRANSCRIPTION_ERROR  == "[TRANSCRIPTION_ERROR]"

\* wait_for_transcription_simple: the transcript text, or "" for None
wait_for_transcription_simple(o) ==
    IF o.job = "COMPLETED" THEN o.text ELSE ""

\* the body of the loop of transcribe_recordings_simple
transcribe_one(o) ==
    IF o.fetch = "raises" THEN TRANSCRIPTION_ERROR
    ELSE IF wait_for_transcription_simple(o) # ""
    THEN wait_for_transcription_simple(o)
    ELSE TRANSCRIPTION_FAILED

\* the questions answered, in the order of the question sequence
AnsweredInOrder(state) ==
    SelectSeq(state.questions_sequence,
              LAMBDA q : q \in DOMAIN state.responses)

FirstFailure(keys, outcomes) ==
    IF \E i \in DOMAIN keys : transcribe_one(outcomes[keys[i]])
                                \in {TRANSCRIPTION_ERROR, TRANSCRIPTION_FAILED}
    THEN CHOOSE i \in DOMAIN keys :
           /\ transcribe_one(outcomes[keys[i]])
                \in {TRANSCRIPTION_ERROR, TRANSCRIPTION_FAILED}
           /\ \A j \in 1..(i - 1) : transcribe_one(outcomes[keys[j]])
                \notin {TRANSCRIPTION_ERROR, TRANSCRIPTION_FAILED}
    ELSE Len(keys) + 1

transcribe_recordings_abort(state, outcomes) ==
    LET keys == AnsweredInOrder(state)
        stop == FirstFailure(keys, outcomes)
    IN  [q \in {keys[i] : i \in 1..(IF stop <= Len(keys) THEN stop ELSE Len(keys))} |->
            transcribe_one(outcomes[q])]

\* transcribe_recordings_simple: one transcript or sentinel for each response
transcribe_recordings_simple(state, outcomes) ==
    LET keys == AnsweredInOrder(state)
    IN  [q \in {keys[i] : i \in DOMAIN keys} |-> transcribe_one(outcomes[q])]

\* the jobs started by transcribe_recordings_simple
jobs_started(state, outcomes) ==
    {q \in DOMAIN state.responses :
        outcomes[q].fetch = "ok" /\ ~ outcomes[q].existing}

----------------------------------------------------------------------------
(* Assessment index: update_global_assessment_index *)

NoUpdate == [id |-> <<>>, written |-> FALSE, replaced |-> FALSE]

\* the update finds an entry of the same assessment in the index it read
finds_entry(stored, read, id) ==
    /\ read = "ok"
    /\ \E i \in DOMAIN stored.assessments : stored.assessments[i].id = id

NoIndex == [exists |-> FALSE, assessments |-> <<>>, last_updated |-> NoTime,
            total_count |-> 0]

EmptyIndex == [NoIndex EXCEPT !.exists = TRUE]

\* an assessment id is the sequence of its parts: assessment_id.split('_')
id_role(parts) ==
    IF Len(parts) >= 4 THEN SubSeq(parts, 1, Len(parts) - 3)
    ELSE IF Len(parts) > 0 THEN <<parts[1]>> ELSE <<"unknown">>
id_date(parts) ==
    IF Len(parts) >= 4 THEN parts[Len(parts) - 2]
    ELSE IF Len(parts) > 1 THEN parts[2] ELSE "unknown"
id_time(parts) ==
    IF Len(parts) >= 4 THEN parts[Len(parts) - 1]
    ELSE IF Len(parts) > 2 THEN parts[3] ELSE "unknown"

assessment_entry(id, status, analyzed_at) ==
    [id |-> id, role |-> id_role(id), date |-> id_date(id),
     time |-> id_time(id), status |-> status, analyzed_at |-> analyzed_at]

\* list.sort(key=analyzed_at, reverse=True): stable, newest first
RECURSIVE sort_newest_first(_)
sort_newest_first(entries) ==
    IF Len(entries) <= 1 THEN entries
    ELSE LET head == entries[1]
             rest == sort_newest_first(Tail(entries))
             k    == Cardinality({i \in DOMAIN rest :
                                    rest[i].analyzed_at > head.analyzed_at})
         IN  SubSeq(rest, 1, k) \o <<head>> \o SubSeq(rest, k + 1, Len(rest))

without_id_keep(entries, id) == entries

\* "Remove any existing entry with same ID"
without_id(entries, id) == SelectSeq(entries, LAMBDA a : a.id # id)

merged_index_unsorted(stored, read, id, status, analyzed_at, t) ==
    LET existing == IF read = "ok" /\ stored.exists THEN stored ELSE EmptyIndex
        entries  == Append(without_id(existing.assessments, id),
                           assessment_entry(id, status, analyzed_at))
    IN  [exists |-> TRUE,
         assessments |-> entries,
         last_updated |-> t,
         total_count |-> Len(entries)]

merged_index_current(stored, read, id, status, analyzed_at, t) ==
    LET existing == IF read = "ok" /\ index.exists THEN index ELSE EmptyIndex
        entries  == Append(without_id(existing.assessments, id),
                           assessment_entry(id, status, analyzed_at))
    IN  [exists |-> TRUE,
         assessments |-> sort_newest_first(entries),
         last_updated |-> t,
         total_count |-> Len(entries)]

\* read is "ok" (the stored index or NoSuchKey) or "error"; the document
\* that put_object writes
merged_index(stored, read, id, status, analyzed_at, t) ==
    LET existing == IF read = "ok" /\ stored.exists THEN stored ELSE EmptyIndex
        entries  == Append(without_id(existing.assessments, id),
                           assessment_entry(id, status, analyzed_at))
    IN  [exists |-> TRUE,
         assessments |-> sort_newest_first(entries),
         last_updated |-> t,
         total_count |-> Len(entries)]

update_global_assessment_index(stored, read, write_ok, id, status, analyzed_at, t) ==
    IF write_ok THEN merged_index(stored, read, id, status, analyzed_at, t)
    ELSE stored

----------------------------------------------------------------------------
(* process_assessment_simple and lambda_handler *)

ASSESSMENT_ID == <<"host", "20250101", "120000", "4567">>

Lower(rec) ==
    CASE rec = "PASS" -> "pass" [] rec = "REVIEW" -> "review"
      [] rec = "FAIL" -> "fail" [] OTHER -> rec

NoRun ==
    [status |-> "none", statusCode |-> 0, success |-> FALSE,
     recommendation |-> "", transcripts |-> <<>>, llm_calls |-> 0,
     llm |-> [raises |-> FALSE, text |-> NoText], started |-> {},
     saved |-> FALSE, fault |-> "none", outcomes |-> <<>>,
     repeats |-> FALSE, prompted |-> {}, rubrics |-> << >>]

NoResult ==
    [exists |-> FALSE, analyzed_at |-> NoTime, transcripts |-> <<>>,
     llm_analysis |-> NoAnalysis, recommendation |-> "",
     total_questions |-> 0]

Failure(code, transcripts, llm_calls, started) ==
    [NoRun EXCEPT !.status = "done", !.statusCode = code,
                  !.transcripts = transcripts, !.llm_calls = llm_calls,
                  !.started = started]

\* process_assessment_simple up to "Step 4", as lambda_handler reports it;
\* state is what get_assessment_state_simple returned (NoSession for None)
process_assessment_simple(state, creds_ok, outcomes, llm) ==
    IF ~ creds_ok THEN Failure(500, <<>>, 0, {})
    ELSE IF ~ state.exists \/ DOMAIN state.responses = {}
    THEN Failure(500, <<>>, 0, {})
    ELSE
      LET transcripts == transcribe_recordings_simple(state, outcomes)
          started     == jobs_started(state, outcomes)
          analysis    == analyze_with_llm_simple(llm)
      IN  IF DOMAIN transcripts = {} THEN Failure(500, transcripts, 0, started)
          ELSE IF ~ analysis.success \/ ~ IsDict(analysis.analysis)
          THEN [Failure(500, transcripts, 1, started) EXCEPT !.llm = llm]
          ELSE [NoRun EXCEPT
                  !.status = "done", !.statusCode = 200, !.success = TRUE,
                  !.recommendation = top_recommendation(analysis.analysis),
                  !.transcripts = transcripts, !.llm_calls = 1,
                  !.llm = llm, !.started = started]

\* the document of process_assessment_simple "Step 4"
result_document(r, llm, t) ==
    [exists |-> TRUE, analyzed_at |-> t, transcripts |-> r.transcripts,
     llm_analysis |-> analyze_with_llm_simple(llm).analysis,
     recommendation |-> r.recommendation,
     total_questions |-> Cardinality(DOMAIN r.transcripts)]

\* "Get status from results" of update_global_assessment_index
index_status(results) ==
    IF results.llm_analysis.overall_assessment.recommendation # ""
    THEN Lower(results.llm_analysis.overall_assessment.recommendation)
    ELSE IF results.llm_analysis.overall_recommendation # ""
    THEN Lower(results.llm_analysis.overall_recommendation)
    ELSE IF results.recommendation # ""
    THEN Lower(results.recommendation)
    ELSE "unknown"

----------------------------------------------------------------------------
(* One scoring run on a stored session *)

MaxAnswered == 2    \* responses of the session that is scored

Percentages      == {69, 70, 80}
Recommendations  == {"PASS", "REVIEW", "FAIL"}

ModelObjects ==
    { JsonObject(rec, pct) :
        rec \in Recommendations \cup {""},
        pct \in [{Categories[i] : i \in 1..3} -> Percentages] }

ModelTexts ==
    { Text("raw", o) : o \in ModelObjects }
    \cup { Text("fenced", o) : o \in ModelObjects }
    \cup { Text("raw", JsonOther("object", FALSE)),      \* {}
           Text("raw", JsonOther("array", TRUE)),        \* [1]
           Text("raw", JsonOther("array", FALSE)),       \* []
           Text("raw", JsonOther("number", TRUE)),       \* 42
           Text("raw", JsonOther("string", TRUE)),       \* "good"
           Text("raw", JsonOther("null", FALSE)),        \* null
           Text("fenced", JsonOther("array", TRUE)),
           Text("fenced", JsonInvalid),
           Text("prose", JsonInvalid) }

ModelReplies ==
    { [raises |-> FALSE, text |-> x] : x \in ModelTexts }
    \cup { [raises |-> TRUE, text |-> NoText] }

TranscriptionOutcomes ==
    { Outcome("ok", TRUE, "COMPLETED", "said"),
      Outcome("ok", FALSE, "COMPLETED", "said"),
      Outcome("ok", FALSE, "COMPLETED", ""),
      Outcome("ok", FALSE, "FAILED", ""),
      Outcome("ok", FALSE, "IN_PROGRESS", ""),
      Outcome("ok", FALSE, "ERROR", ""),
      Outcome("raises", FALSE, "NONE", "") }

\* the session after the initial contact and k accepted recordings
SessionAfter(skill, k) ==
    [ exists |-> TRUE,
      questions_sequence |-> ASSESSMENT_TEMPLATES[skill],
      current_question_index |-> k + 1,
      responses |-> [q \in {ASSESSMENT_TEMPLATES[skill][i + 1] : i \in 1..k} |->
                       LET i == CHOOSE j \in 1..k :
                                  ASSESSMENT_TEMPLATES[skill][j + 1] = q
                       IN  [recording_url |-> i + 1, timestamp |-> i + 1]],
      status |-> "in_progress",
      created_at |-> 1,
      completed_at |-> NoTime ]

OtherEntry == assessment_entry(<<"banquet", "server", "20241231", "090000", "1234">>,
                               "pass", 1)

InitScore ==
    /\ role \in Roles
    /\ session \in {NoSession} \cup {SessionAfter(role, k) : k \in 0..MaxAnswered}
    /\ now = MaxAnswered + 2
    /\ lastCall = NoCall
    /\ directive = NoDirective
    /\ live = NoDirective
    /\ nreplays = 0
    /\ invoked = 1
    /\ run = NoRun
    /\ result = NoResult
    /\ index \in {NoIndex,
                  [EmptyIndex EXCEPT !.assessments = <<OtherEntry>>,
                                     !.last_updated = 1, !.total_count = 1]}
    /\ lastUpdate = NoUpdate
    /\ nfaults = 0
    /\ jobs = {}
    /\ updaters = <<>>
    /\ handlers = <<>>
    /\ poll = NoPoll

\* what goes wrong around one run: nothing, or one of the event parameters
\* missing, the Twilio credentials missing, the read of the session, the
\* write of the result, the read of the index, the merge of the new entry
\* into what was read, the write of the index
RunFaults == {"none", "params", "creds", "state_read", "save",
              "index_read", "index_merge", "index_write"}

index_read(fault) == IF fault = "index_read" THEN "error" ELSE "ok"

index_written(fault) == fault \notin {"index_merge", "index_write"}

save_results_keep_first(stored_result, stored_index, doc, fault, t) ==
    IF fault = "save" \/ stored_result.exists
    THEN [result |-> stored_result, index |-> stored_index]
    ELSE [result |-> doc,
          index  |-> update_global_assessment_index(stored_index,
                        index_read(fault), index_written(fault),
                        ASSESSMENT_ID, index_status(doc), doc.analyzed_at, t)]

save_results_index_first(stored_result, stored_index, doc, fault, t) ==
    IF fault = "save" \/ ~ index_written(fault)
    THEN [result |-> stored_result, index |-> stored_index]
    ELSE [result |-> doc,
          index  |-> update_global_assessment_index(stored_index,
                        index_read(fault), TRUE, ASSESSMENT_ID,
                        index_status(doc), doc.analyzed_at, t)]

save_results_index_anyway(stored_result, stored_index, doc, fault, t) ==
    [result |-> IF fault = "save" THEN stored_result ELSE doc,
     index  |-> update_global_assessment_index(stored_index,
                   index_read(fault), index_written(fault),
                   ASSESSMENT_ID, index_status(doc), doc.analyzed_at, t)]

\* save_results_simple: the result document and the index it leaves stored
save_results_simple(stored_result, stored_index, doc, fault, t) ==
    IF fault = "save"
    THEN [result |-> stored_result, index |-> stored_index]
    ELSE [result |-> doc,
          index  |-> update_global_assessment_index(stored_index,
                        index_read(fault), index_written(fault),
                        ASSESSMENT_ID, index_status(doc), doc.analyzed_at, t)]

save_step_always(r, stored_result, stored_index, doc, fault, t) ==
    save_results_simple(stored_result, stored_index, doc, fault, t)

\* process_assessment_simple "Step 4: Save results": reached by a run that
\* has not returned a failure before it
save_step(r, stored_result, stored_index, doc, fault, t) ==
    IF r.success
    THEN save_results_simple(stored_result, stored_index, doc, fault, t)
    ELSE [result |-> stored_result, index |-> stored_index]

\* the questions that have a completed transcription job after a run
completed_jobs(r, outcomes) ==
    {q \in DOMAIN r.transcripts :
        /\ outcomes[q].fetch = "ok"
        /\ outcomes[q].existing \/ outcomes[q].job = "COMPLETED"}

\* lambda_handler of the assessment processor, with save_results_simple
lambda_handler(fault, outcomes, llm) ==
    LET state == IF fault = "state_read" THEN NoSession ELSE session
        r     == IF fault # "params"
                 THEN process_assessment_simple(state, fault # "creds",
                                                outcomes, llm)
                 ELSE Failure(400, <<>>, 0, {})
        doc   == result_document(r, llm, now)
        saved == r.success /\ fault # "save"
        after == save_step(r, result, index, doc, fault, now)
        \* the run has the transcripts and the model reply of the run before
        \* it, whose result was saved
        same  == /\ run.saved
                 /\ r.transcripts = run.transcripts
                 /\ llm = run.llm
    IN  /\ run' = [r EXCEPT !.saved = saved, !.fault = fault,
                              !.outcomes = outcomes, !.repeats = same,
                              !.prompted =
                                 IF r.llm_calls > 0
                                 THEN build_assessment_prompt_simple(
                                         r.transcripts, role)
                                 ELSE {}]
        /\ result' = after.result
        /\ index' = after.index
        /\ lastUpdate' = IF saved
                         THEN [id |-> ASSESSMENT_ID,
                               written |-> index_written(fault),
                               replaced |-> finds_entry(index,
                                  index_read(fault), ASSESSMENT_ID)]
                         ELSE lastUpdate
        /\ jobs' = jobs \cup completed_jobs(r, outcomes)
        /\ now' = now + 1
        /\ UNCHANGED <<role, session, lastCall, directive, live, nreplays,
                       invoked, nfaults, updaters, waitVars>>

\* one invocation of the processor; what the job lookup finds is an input
ScoringRun ==
    /\ run.status = "none"
    /\ \E fault \in RunFaults,
          outcomes \in [DOMAIN session.responses -> TranscriptionOutcomes],
          llm \in ModelReplies :
         lambda_handler(fault, outcomes, llm)

SpecScore == InitScore /\ [][ScoringRun]_vars

----------------------------------------------------------------------------
(* Runs of the processor on one stored session, one after another: the job *)
(* lookup of a run finds the jobs that earlier runs completed.             *)

MaxRuns == 2     \* invocations of the processor for the assessment

RerunFaults == {"none", "save", "params", "creds", "state_read"}

RerunReplies ==
    { [raises |-> FALSE,
       text |-> Text("raw", JsonObject("PASS",
                   [c \in {Categories[i] : i \in 1..3} |-> 80]))],
      [raises |-> FALSE, text |-> Text("prose", JsonInvalid)],
      [raises |-> TRUE, text |-> NoText] }

\* find_existing_transcription_job: a completed job of the question, when
\* there is one and list_transcription_jobs does not raise
find_existing_transcription_job(completed, q, lookup) ==
    q \in completed /\ lookup = "ok"

Reprocess ==
    /\ now < MaxAnswered + 2 + MaxRuns
    /\ \E fault \in RerunFaults, llm \in RerunReplies,
          fetch  \in [DOMAIN session.responses -> {"ok", "raises"}],
          lookup \in [DOMAIN session.responses -> {"ok", "raises"}],
          job    \in [DOMAIN session.responses -> {"COMPLETED", "FAILED"}] :
         lambda_handler(fault,
            [q \in DOMAIN session.responses |->
               Outcome(fetch[q],
                       find_existing_transcription_job(jobs, q, lookup[q]),
                       job[q],
                       IF job[q] = "COMPLETED" THEN "said" ELSE "")],
            llm)

SpecRerun == InitScore /\ [][Reprocess]_vars

----------------------------------------------------------------------------
(* Index updates for several assessments *)

MaxUpdates == 4     \* index updates in one behaviour

AssessmentIds ==
    { ASSESSMENT_ID,
      <<"banquet", "server", "20241231", "090000", "1234">>,
      <<"test", "1">> }

InitIndex ==
    /\ role \in Roles
    /\ session = NoSession
    /\ now = 1
    /\ lastCall = NoCall
    /\ directive = NoDirective
    /\ live = NoDirective
    /\ nreplays = 0
    /\ invoked = 0
    /\ run = NoRun
    /\ result = NoResult
    /\ index = NoIndex
    /\ lastUpdate = NoUpdate
    /\ nfaults = 0
    /\ jobs = {}
    /\ updaters = <<>>
    /\ handlers = <<>>
    /\ poll = NoPoll

\* update_global_assessment_index for the results of some assessment
UpdateIndex ==
    /\ now <= MaxUpdates
    /\ \E id \in AssessmentIds, status \in {"pass", "review"},
          analyzed_at \in 1..now, read \in {"ok", "error"},
          write_ok \in BOOLEAN :
         /\ index' = update_global_assessment_index(index, read, write_ok,
                                                    id, status, analyzed_at, now)
         /\ lastUpdate' = [id |-> id, written |-> write_ok,
                           replaced |-> finds_entry(index, read, id)]
    /\ now' = now + 1
    /\ UNCHANGED <<role, session, lastCall, directive, live, nreplays, invoked,
                   run, result, nfaults, jobs, updaters, waitVars>>

SpecIndex == InitIndex /\ [][UpdateIndex]_vars

----------------------------------------------------------------------------
(* Index updates of several scoring runs at the same time: each run reads  *)
(* the index with get_object and later writes the merged document with     *)
(* put_object, and the steps of different runs interleave.                 *)

MaxUpdaters == 2    \* scoring runs that update the index at the same time

UpdaterIds ==
    << ASSESSMENT_ID,
       <<"test", "1">>,
       <<"bartender", "20250102", "130000", "8901">> >>

NoUpdater ==
    [pc |-> "start", id |-> <<>>, status |-> "", analyzed_at |-> NoTime,
     seen |-> NoIndex, read_at |-> NoTime, wrote_at |-> NoTime]

InitConcurrent ==
    /\ role \in Roles
    /\ session = NoSession
    /\ now = 1
    /\ lastCall = NoCall
    /\ directive = NoDirective
    /\ live = NoDirective
    /\ nreplays = 0
    /\ invoked = 0
    /\ run = NoRun
    /\ result = NoResult
    /\ index \in {NoIndex, EmptyIndex}
    /\ lastUpdate = NoUpdate
    /\ nfaults = 0
    /\ jobs = {}
    /\ updaters = [u \in 1..MaxUpdaters |-> [NoUpdater EXCEPT !.id = UpdaterIds[u]]]
    /\ handlers = <<>>
    /\ poll = NoPoll

\* "Try to get existing index": get_object of run u
ReadIndex(u) ==
    /\ updaters[u].pc = "start"
    /\ \E status \in {"pass", "review", "fail"} :
         updaters' = [updaters EXCEPT ![u] =
                        [@ EXCEPT !.pc = "read", !.status = status,
                                  !.analyzed_at = now, !.seen = index,
                                  !.read_at = now]]
    /\ now' = now + 1
    /\ UNCHANGED <<role, session, lastCall, directive, live, nreplays, invoked,
                   run, result, index, lastUpdate, nfaults, jobs,
                   waitVars>>

\* "Save updated index": put_object of run u, of what it read and merged
WriteIndex(u) ==
    /\ updaters[u].pc = "read"
    /\ index' = merged_index(updaters[u].seen, "ok", updaters[u].id,
                             updaters[u].status, updaters[u].analyzed_at, now)
    /\ lastUpdate' = [id |-> updaters[u].id, written |-> TRUE,
                      replaced |-> finds_entry(updaters[u].seen, "ok",
                                               updaters[u].id)]
    /\ updaters' = [updaters EXCEPT ![u] =
                      [@ EXCEPT !.pc = "done", !.wrote_at = now]]
    /\ now' = now + 1
    /\ UNCHANGED <<role, session, lastCall, directive, live, nreplays, invoked,
                   run, result, nfaults, jobs, waitVars>>

NextConcurrent ==
    \/ \E u \in 1..MaxUpdaters : ReadIndex(u)
    \/ \E u \in 1..MaxUpdaters : WriteIndex(u)

SpecConcurrent == InitConcurrent /\ [][NextConcurrent]_vars

----------------------------------------------------------------------------
(* Call flow.  The telephony provider executes the document it received    *)
(* last (live): a new recording comes from a Record verb of that document  *)
(* and carries a fresh recording URL (the tick of its first delivery); a   *)
(* callback may also be delivered a second time with the same parameters,  *)
(* and then the provider goes on with either reply.                        *)

Deliver(call, reply) ==
    /\ nreplays' = nreplays + (IF call.replay THEN 1 ELSE 0)
    /\ nreplays' <= MaxReplays
    /\ nfaults' = nfaults + (IF call.fault # "none" THEN 1 ELSE 0)
    /\ nfaults' <= MaxFaults
    /\ session'   = reply.store
    /\ directive' = reply.twiml
    /\ invoked'   = invoked + reply.fired
    /\ lastCall'  = call
    /\ now'       = now + 1
    /\ UNCHANGED <<role, scoreVars, indexVars, waitVars>>

\* /webhook: the first delivery, or a later delivery of the same callback
InitialContact ==
    /\ now <= MaxCalls
    /\ LET reply == handle_initial_webhook(session, role, "none", now)
       IN  /\ Deliver([NoCall EXCEPT !.kind = "initial",
                                     !.replay = session.exists], reply)
           /\ live' \in (IF session.exists THEN {live} ELSE {})
                        \cup {reply.twiml}

\* /webhook/recording for a recording made by a Record verb of live
RecordingCallback ==
    /\ now <= MaxCalls
    /\ \E a \in RecordingActions(live), d \in Digits, n \in Durations :
         LET reply == handle_recording_completion(session, role, a.question,
                                                  d, now, n, "none", now)
         IN  /\ Deliver([kind |-> "recording", replay |-> FALSE,
                         question |-> a.question, window |-> a.window,
                         digits |-> d, recording_url |-> now,
                         duration |-> n, fault |-> "none"], reply)
             /\ live' = reply.twiml

\* /webhook/recording delivered a second time with the same parameters
ReplayRecording ==
    /\ now <= MaxCalls
    /\ lastCall.kind = "recording"
    /\ LET reply == handle_recording_completion(session, role,
                       lastCall.question, lastCall.digits,
                       lastCall.recording_url, lastCall.duration,
                       "none", now)
       IN  /\ Deliver([lastCall EXCEPT !.replay = TRUE], reply)
           /\ live' \in {live, reply.twiml}

\* /webhook/gather for the question the call is on
GatherCallback ==
    /\ now <= MaxCalls
    /\ \E a \in RecordingActions(live), d \in Digits :
         LET reply == handle_gather_response(session, a.question, d, "none")
         IN  /\ Deliver([NoCall EXCEPT !.kind = "gather",
                                       !.question = a.question,
                                       !.digits = d], reply)
             /\ live' = reply.twiml

Init ==
    /\ role \in Roles
    /\ session = NoSession
    /\ now = 1
    /\ lastCall = NoCall
    /\ directive = NoDirective
    /\ live = NoDirective
    /\ nreplays = 0
    /\ invoked = 0
    /\ run = NoRun
    /\ result = NoResult
    /\ index = NoIndex
    /\ lastUpdate = NoUpdate
    /\ nfaults = 0
    /\ jobs = {}
    /\ updaters = <<>>
    /\ handlers = <<>>
    /\ poll = NoPoll

Next == InitialContact \/ RecordingCallback \/ ReplayRecording \/ GatherCallback

Spec == Init /\ [][Next]_vars

----------------------------------------------------------------------------
(* The batch of transcribe_recordings_simple step by step: for each        *)
(* response in turn the recording is fetched, a job is found or started,   *)
(* and wait_for_transcription_simple checks the job until it returns.  The *)
(* clock of a wait is the seconds since its start_time.                    *)

MAX_WAIT   == 300    \* max_wait: int = 300
POLL_SLEEP == 10     \* time.sleep(10)

\* seconds that one get_transcription_job call takes
Latencies == {0, 5}

\* TranscriptionJobStatus, or ERROR when the call or the read of the
\* transcript file raises
JobStatuses == {"COMPLETED", "FAILED", "IN_PROGRESS", "QUEUED", "ERROR"}

wait_iteration_no_sleep(p, status, latency) ==
    IF status \in {"IN_PROGRESS", "QUEUED"}
    THEN [p EXCEPT !.checks = @ + 1]
    ELSE [p EXCEPT !.checks = @ + 1, !.pc = "returned"]

\* one pass of the loop of wait_for_transcription_simple: a status check,
\* then a return, or the sleep before the next check
wait_iteration(p, status, latency) ==
    IF status \in {"IN_PROGRESS", "QUEUED"}
    THEN [p EXCEPT !.checks = @ + 1,
                   !.elapsed = @ + latency + POLL_SLEEP]
    ELSE [p EXCEPT !.checks = @ + 1, !.pc = "returned"]

\* the loop of transcribe_recordings_simple goes to the next response
next_response(p, n) ==
    [p EXCEPT !.pc = IF p.question >= n THEN "done" ELSE "next",
              !.question = @ + 1]

InitPoll ==
    /\ role \in Roles
    /\ session \in {SessionAfter(role, k) : k \in 1..MaxAnswered}
    /\ now = MaxAnswered + 2
    /\ lastCall = NoCall
    /\ directive = NoDirective
    /\ live = NoDirective
    /\ nreplays = 0
    /\ invoked = 1
    /\ run = NoRun
    /\ result = NoResult
    /\ index = NoIndex
    /\ lastUpdate = NoUpdate
    /\ nfaults = 0
    /\ jobs = {}
    /\ updaters = <<>>
    /\ handlers = <<>>
    /\ poll = [NoPoll EXCEPT !.pc = "next", !.question = 1]

\* the transcript or sentinel of the response in turn is stored
Resolve(o, p) ==
    LET keys == AnsweredInOrder(session)
    IN  /\ run' = [run EXCEPT !.transcripts =
                      (keys[poll.question] :> transcribe_one(o)) @@ @]
        /\ poll' = next_response(p, Len(keys))

\* download and upload of the recording, job lookup, start of a job
BeginTranscription ==
    /\ poll.pc = "next"
    /\ \E fetch \in {"ok", "raises"}, existing \in BOOLEAN :
         IF fetch = "raises"
         THEN Resolve(Outcome("raises", FALSE, "NONE", ""), poll)
         ELSE /\ poll' = [poll EXCEPT !.pc = "waiting", !.existing = existing,
                                      !.checks = 0, !.elapsed = 0]
              /\ UNCHANGED run
    /\ UNCHANGED <<callVars, result, jobs, indexVars, handlers>>

\* get_transcription_job while the wait has not reached max_wait
CheckJob ==
    /\ poll.pc = "waiting"
    /\ poll.elapsed < MAX_WAIT
    /\ \E status \in (IF poll.existing THEN {"COMPLETED", "ERROR"}
                       ELSE JobStatuses),
          text \in {"said", ""}, latency \in Latencies :
         IF wait_iteration(poll, status, latency).pc = "returned"
         THEN Resolve(Outcome("ok", poll.existing, status,
                              IF status = "COMPLETED" THEN text ELSE ""),
                      wait_iteration(poll, status, latency))
         ELSE /\ poll' = wait_iteration(poll, status, latency)
              /\ UNCHANGED run
    /\ UNCHANGED <<callVars, result, jobs, indexVars, handlers>>

\* "Transcription job timed out": the loop condition fails
TimeOut ==
    /\ poll.pc = "waiting"
    /\ poll.elapsed >= MAX_WAIT
    /\ LET keys == AnsweredInOrder(session)
       IN  /\ run' = [run EXCEPT !.transcripts =
                         (keys[poll.question] :> TRANSCRIPTION_FAILED) @@ @]
           /\ poll' = next_response(poll, Len(keys))
    /\ UNCHANGED <<callVars, result, jobs, indexVars, handlers>>

NextPoll == BeginTranscription \/ CheckJob \/ TimeOut

\* a running invocation goes on with its next step
SpecPoll == InitPoll /\ [][NextPoll]_vars /\ WF_vars(NextPoll)

----------------------------------------------------------------------------
(* The evaluation request of analyze_with_llm_simple for a transcript map  *)
(* of some of the role's questions.                                        *)

MaxPrompted == 3    \* questions of the transcript map

\* the questions of a role that the call records
Recordable(skill) ==
    {ASSESSMENT_TEMPLATES[skill][i] :
        i \in 2..(Len(ASSESSMENT_TEMPLATES[skill]) - 1)}

InitPrompt ==
    /\ role \in Roles
    /\ session = NoSession
    /\ now = 1
    /\ lastCall = NoCall
    /\ directive = NoDirective
    /\ live = NoDirective
    /\ nreplays = 0
    /\ invoked = 1
    /\ \E qs \in {x \in SUBSET Recordable(role) :
                     Cardinality(x) \in 1..MaxPrompted} :
         \E t \in [qs -> {"said", TRANSCRIPTION_FAILED}] :
           run = [NoRun EXCEPT !.transcripts = t]
    /\ result = NoResult
    /\ index = NoIndex
    /\ lastUpdate = NoUpdate
    /\ nfaults = 0
    /\ jobs = {}
    /\ updaters = <<>>
    /\ handlers = <<>>
    /\ poll = NoPoll

\* "Build prompt" of analyze_with_llm_simple
BuildPrompt ==
    /\ run.status = "none"
    /\ run' = [run EXCEPT
                 !.status = "prompted", !.llm_calls = 1,
                 !.prompted = build_assessment_prompt_simple(run.transcripts,
                                                             role),
                 !.rubrics = prompt_rubrics(run.transcripts, role)]
    /\ UNCHANGED <<callVars, result, jobs, indexVars, waitVars>>

SpecPrompt == InitPrompt /\ [][BuildPrompt]_vars

----------------------------------------------------------------------------
(* format_analysis_for_humans on a parsed reply whose category_scores hold *)
(* percentages around the threshold, with a fractional part, for some of   *)
(* the categories.                                                         *)

FormatPercentages == {68, 69, 70}   \* whole part of a category's percentage
FormatTenths      == {0, 5, 6}      \* its first decimal

ScoredObjects ==
    { JsonScores(rec, pct, tenths, scored) :
        rec \in {"PASS", ""},
        pct \in [{Categories[i] : i \in 1..3} -> FormatPercentages],
        tenths \in [{Categories[i] : i \in 1..3} -> FormatTenths],
        scored \in SUBSET {Categories[i] : i \in 1..3} }

InitFormat ==
    /\ role \in Roles
    /\ session = NoSession
    /\ now = 1
    /\ lastCall = NoCall
    /\ directive = NoDirective
    /\ live = NoDirective
    /\ nreplays = 0
    /\ invoked = 1
    /\ \E json \in ScoredObjects :
         run = [NoRun EXCEPT !.status = "parsed", !.llm_calls = 1,
                             !.llm = [raises |-> FALSE,
                                      text |-> Text("raw", json)]]
    /\ result = NoResult
    /\ index = NoIndex
    /\ lastUpdate = NoUpdate
    /\ nfaults = 0
    /\ jobs = {}
    /\ updaters = <<>>
    /\ handlers = <<>>
    /\ poll = NoPoll

\* "formatted_analysis = format_analysis_for_humans(analysis_json, ...)"
FormatAnalysis ==
    /\ run.status = "parsed"
    /\ run' = [run EXCEPT !.status = "formatted"]
    /\ result' = [result EXCEPT
                    !.llm_analysis =
                        format_analysis_for_humans(
                            parse_analysis(run.llm.text))]
    /\ UNCHANGED <<callVars, jobs, indexVars, waitVars>>

SpecFormat == InitFormat /\ [][FormatAnalysis]_vars

----------------------------------------------------------------------------
(* Two deliveries of one recording callback handled at the same time: each *)
(* handler reads the session (get_assessment_state) and later stores the   *)
(* response, advances what it read and saves it; the steps of the two      *)
(* handlers interleave.  The call is on a question of a stored session.    *)

MaxDeliveries == 2   \* handlers of the same callback running together

NoHandler == [pc |-> "start", seen |-> NoSession, read_at |-> NoTime]

\* the questions the call may be on: one of the first, or the last one
RaceSessions(skill) ==
    {SessionAfter(skill, k) :
        k \in (0..MaxAnswered) \cup {Len(ASSESSMENT_TEMPLATES[skill]) - 3}}

InitRace ==
    /\ role \in Roles
    /\ session \in RaceSessions(role)
    /\ now = Len(ASSESSMENT_TEMPLATES[role])
    /\ \E d \in Digits, n \in Durations :
         lastCall = [kind |-> "recording", replay |-> FALSE,
                     question |-> get_current_question(session),
                     window |-> SHORT_TIMEOUT, digits |-> d,
                     recording_url |-> now, duration |-> n, fault |-> "none"]
    /\ directive = NoDirective
    /\ live = QuestionTwiml(get_current_question(session))
    /\ nreplays = 0
    /\ invoked = 0
    /\ run = NoRun
    /\ result = NoResult
    /\ index = NoIndex
    /\ lastUpdate = NoUpdate
    /\ nfaults = 0
    /\ jobs = {}
    /\ updaters = <<>>
    /\ handlers = [h \in 1..MaxDeliveries |-> NoHandler]
    /\ poll = NoPoll

\* "Get current state": get_assessment_state of handler h
ReadSession(h) ==
    /\ handlers[h].pc = "start"
    /\ handlers' = [handlers EXCEPT ![h] =
                      [pc |-> "read",
                       seen |-> get_assessment_state(session, role, now),
                       read_at |-> now]]
    /\ now' = now + 1
    /\ UNCHANGED <<role, session, lastCall, directive, live, nreplays, invoked,
                   nfaults, poll, scoreVars, indexVars>>

\* handler h goes on with what it read: store the response, advance, save,
\* reply
FinishRecording(h) ==
    /\ handlers[h].pc = "read"
    /\ LET reply == recording_completion_tail(session, handlers[h].seen, role,
                       lastCall.question, lastCall.digits,
                       lastCall.recording_url, lastCall.duration, "none", now)
       IN  /\ session' = reply.store
           /\ directive' = reply.twiml
           /\ live' = reply.twiml
           /\ invoked' = invoked + reply.fired
    /\ handlers' = [handlers EXCEPT ![h].pc = "done"]
    /\ now' = now + 1
    /\ UNCHANGED <<role, lastCall, nreplays, nfaults, poll, scoreVars,
                   indexVars>>

NextRace ==
    \/ \E h \in 1..MaxDeliveries : ReadSession(h)
    \/ \E h \in 1..MaxDeliveries : FinishRecording(h)

SpecRace == InitRace /\ [][NextRace]_vars

----------------------------------------------------------------------------
(* Call flow with failing operations: every callback is delivered once,    *)
(* and in at most MaxFaults of them an operation the handler executes      *)
(* fails.                                                                  *)

\* an operation that handling the callback executes fails
Strikes(call) ==
    call.fault # "none"
      => handle_http_request(session, role, call, call.fault, now)
           # handle_http_request(session, role, call, "none", now)

Webhook(call) ==
    LET reply == handle_http_request(session, role, call, call.fault, now)
    IN  /\ now <= MaxCalls
        /\ Strikes(call)
        /\ Deliver(call, reply)
        /\ live' = reply.twiml

\* /webhook, the first callback of the call
InitialWebhook ==
    /\ lastCall.kind = "none"
    /\ \E fault \in CallFaults :
         Webhook([NoCall EXCEPT !.kind = "initial", !.fault = fault])

\* /webhook/recording for a recording made by a Record verb of live
RecordingWebhook ==
    \E a \in RecordingActions(live), d \in Digits, n \in Durations,
       fault \in CallFaults \ {"no_id"} :
      Webhook([kind |-> "recording", replay |-> FALSE,
               question |-> a.question, window |-> a.window, digits |-> d,
               recording_url |-> now, duration |-> n, fault |-> fault])

\* /webhook/gather for the question the call is on
GatherWebhook ==
    \E a \in RecordingActions(live), d \in Digits, fault \in {"none", "body"} :
      Webhook([NoCall EXCEPT !.kind = "gather", !.question = a.question,
                             !.digits = d, !.fault = fault])

NextFault == InitialWebhook \/ RecordingWebhook \/ GatherWebhook

SpecFault == Init /\ [][NextFault]_vars

----------------------------------------------------------------------------
(* Late and duplicate callbacks: a stored session, in progress or          *)
(* completed, receives callbacks in any order, for the question it is on   *)
(* or the one before, and in at most MaxFaults of them an operation the    *)
(* handler executes fails.                                                 *)

MaxLate == 3    \* callbacks that the stored session receives

\* the session after the call has reached the completion directive
CompletedSession(skill) ==
    [SessionAfter(skill, Len(ASSESSMENT_TEMPLATES[skill]) - 2) EXCEPT
        !.status = "completed",
        !.completed_at = Len(ASSESSMENT_TEMPLATES[skill])]

\* the questions a recording of the call may belong to: the one the
\* session is on and the one before, the last one when the session is past
\* the questions
LateQuestions(state) ==
    LET last   == Len(state.questions_sequence) - 1
        at(j)  == IF j > last THEN last ELSE j
    IN  {state.questions_sequence[i] :
           i \in {j \in {at(state.current_question_index),
                          at(state.current_question_index + 1)} : j > 1}}

InitLate ==
    /\ role \in Roles
    /\ session \in RaceSessions(role) \cup {CompletedSession(role)}
    /\ now = Len(ASSESSMENT_TEMPLATES[role]) + 1
    /\ lastCall = NoCall
    /\ directive = NoDirective
    /\ live = NoDirective
    /\ nreplays = 0
    /\ invoked = IF session.status = "completed" THEN 1 ELSE 0
    /\ run = NoRun
    /\ result = NoResult
    /\ index = NoIndex
    /\ lastUpdate = NoUpdate
    /\ nfaults = 0
    /\ jobs = {}
    /\ updaters = <<>>
    /\ handlers = <<>>
    /\ poll = NoPoll

Late(call) ==
    LET reply == handle_http_request(session, role, call, call.fault, now)
    IN  /\ nreplays < MaxLate
        /\ Strikes(call)
        /\ nfaults' = nfaults + (IF call.fault # "none" THEN 1 ELSE 0)
        /\ nfaults' <= MaxFaults
        /\ nreplays' = nreplays + 1
        /\ session' = reply.store
        /\ directive' = reply.twiml
        /\ live' = reply.twiml
        /\ invoked' = invoked + reply.fired
        /\ lastCall' = call
        /\ now' = now + 1
        /\ UNCHANGED <<role, scoreVars, indexVars, waitVars>>

\* /webhook delivered again
LateInitial ==
    \E fault \in CallFaults :
      Late([NoCall EXCEPT !.kind = "initial", !.replay = TRUE,
                          !.fault = fault])

\* /webhook/recording delivered late or again
LateRecording ==
    \E q \in LateQuestions(session), d \in Digits, n \in Durations,
       fault \in CallFaults \ {"no_id"} :
      Late([kind |-> "recording", replay |-> TRUE, question |-> q,
            window |-> SHORT_TIMEOUT, digits |-> d, recording_url |-> now,
            duration |-> n, fault |-> fault])

\* /webhook/gather delivered late or again
LateGather ==
    \E q \in LateQuestions(session), d \in Digits, fault \in {"none", "body"} :
      Late([NoCall EXCEPT !.kind = "gather", !.replay = TRUE,
                          !.question = q, !.digits = d, !.fault = fault])

NextLate == LateInitial \/ LateRecording \/ LateGather

SpecLate == InitLate /\ [][NextLate]_vars

----------------------------------------------------------------------------
(* Properties of the call flow *)

Accepted(call) ==
    /\ call.kind = "recording"
    /\ call.digits # "*"
    /\ ~ (call.duration = SHORT_TIMEOUT /\ call.digits = "")

SameProgress(s1, s2) ==
    /\ s2.current_question_index = s1.current_question_index
    /\ s2.responses = s1.responses

\* the directive presents question q: it plays q's audio first, and every
\* recording it opens is a recording of q
Presents(d, q) ==
    /\ Len(d.verbs) > 0
    /\ d.verbs[1] = Play(q)
    /\ \A a \in RecordingActions(d) : a.question = q

\* C1: a recording callback delivered a second time, after its first
\* delivery was processed, leaves current_question_index and responses as
\* the first delivery left them.
C1_ReplayLeavesSession ==
    [][ (lastCall'.kind = "recording" /\ lastCall'.replay)
          => SameProgress(session, session') ]_vars

\* C3: the stored current_question_index never decreases, and a stored
\* session stays stored.
C3_IndexNeverDecreases ==
    [][ session.exists =>
          /\ session'.exists
          /\ session'.current_question_index >= session.current_question_index
      ]_vars

C3_Witness ==
    /\ session.current_question_index >= 4
    /\ nreplays >= 1
    /\ session.status = "completed"

\* C4: an accepted recording callback advances current_question_index by
\* exactly one and replies with the directive of the question at the new
\* index, or with the completion directive when the new index is past the
\* last question.
C4_AcceptedAdvancesByOne ==
    [][ Accepted(lastCall') =>
          /\ session'.current_question_index
                = session.current_question_index + 1
          /\ IF session'.current_question_index
                  < Len(session'.questions_sequence)
             THEN Presents(directive', get_current_question(session'))
             ELSE directive' = CompletionTwiml ]_vars

C4_Witness ==
    /\ Accepted(lastCall)
    /\ session.current_question_index = 3
    /\ directive = QuestionTwiml(session.questions_sequence[4])

\* C5: the repeat key, on the recording callback or on the gather callback,
\* replies with a directive that plays the same question again and leaves
\* current_question_index and responses unchanged.
C5_RepeatKeyKeepsSession ==
    [][ (lastCall'.kind \in {"recording", "gather"} /\ lastCall'.digits = "*")
          => /\ SameProgress(session, session')
             /\ Presents(directive', lastCall'.question)
             /\ RecordingActions(directive') # {} ]_vars

C5_Witness ==
    /\ lastCall.kind = "recording"
    /\ lastCall.digits = "*"
    /\ session.current_question_index >= 2
    /\ directive = QuestionTwiml(lastCall.question)

\* C6: a recording callback of exactly the short timeout's duration with no
\* digit replies with the instructions and the long recording window for the
\* same question, stores no response and does not advance.
C6_SilentTimeoutReprompts ==
    [][ (lastCall'.kind = "recording" /\ lastCall'.digits = ""
            /\ lastCall'.duration = SHORT_TIMEOUT)
          => /\ session' = session
             /\ directive'.verbs[1] = Play("instructions")
             /\ RecordingActions(directive')
                  = {[question |-> lastCall'.question,
                      window |-> LONG_TIMEOUT]} ]_vars

C6_Witness ==
    /\ lastCall.kind = "recording"
    /\ lastCall.digits = ""
    /\ lastCall.duration = SHORT_TIMEOUT
    /\ lastCall.question \notin DOMAIN session.responses
    /\ directive = TimeoutTwiml(lastCall.question)

\* C7: the initial-contact callback creates a session only when none is
\* stored, and a duplicate delivery leaves the stored session unchanged at
\* whatever point of the interview it arrives.
C7_DuplicateInitialLeavesSession ==
    [][ lastCall'.kind = "initial" =>
          IF session.exists
          THEN session' = session
          ELSE /\ session'.status = "in_progress"
               /\ session'.responses = <<>> ]_vars

PresentationOnly == {"intro", "goodbye"}

\* C16: no directive opens a recording for intro or goodbye and responses
\* has no entry for them; the first callback presents intro and leaves the
\* session at index 1; a session never rests at intro; the step that
\* brings the session to goodbye replies with the completion directive and
\* a session at goodbye is completed.
C16_IntroGoodbyePresentationOnly ==
    /\ [](\A a \in RecordingActions(directive) :
             a.question \notin PresentationOnly)
    /\ [](DOMAIN session.responses \cap PresentationOnly = {})
    /\ [](session.exists =>
             /\ get_current_question(session) # "intro"
             /\ get_current_question(session) = "goodbye"
                  => session.status = "completed")
    /\ [][ (lastCall'.kind = "initial" /\ ~ session.exists)
             => /\ directive'.verbs[1] = Play("intro")
                /\ session'.current_question_index = 1 ]_vars
    /\ [][ (session' # session /\ get_current_question(session') = "goodbye")
             => directive' = CompletionTwiml ]_vars

C16_Witness ==
    /\ nreplays = 0
    /\ get_current_question(session) = "goodbye"
    /\ session.status = "completed"
    /\ directive = CompletionTwiml
    /\ Cardinality(DOMAIN session.responses)
         = Len(session.questions_sequence) - 2

\* current_question_index is past question q of the sequence
AdvancedPast(state, q) ==
    \E i \in 1..state.current_question_index :
        i <= Len(state.questions_sequence) /\ state.questions_sequence[i] = q

\* C17: a stored response is never removed, and the response of a question
\* that current_question_index is past is never changed.
C17_StoredResponsesKept ==
    [][ \A q \in DOMAIN session.responses :
          /\ q \in DOMAIN session'.responses
          /\ AdvancedPast(session, q)
               => session'.responses[q] = session.responses[q] ]_vars

\* C18: while no callback has been delivered a second time the processor
\* has been invoked at most once, and the callback that invokes it leaves
\* the session completed, at goodbye or past the last question, and is
\* answered with the completion directive.
C18_InvokedOnceAtCompletion ==
    [][ nreplays' = 0
          => /\ invoked' <= 1
             /\ invoked' # invoked
                  => /\ session'.status = "completed"
                     /\ get_current_question(session') \in {"goodbye", NoQuestion}
                     /\ directive' = CompletionTwiml ]_vars

C18_Witness ==
    /\ nreplays = 0
    /\ invoked = 1
    /\ lastCall.kind = "recording"
    /\ session.status = "completed"
    /\ get_current_question(session) = "goodbye"

----------------------------------------------------------------------------
(* Properties of the scoring run *)

\* the fixed rule on the category percentages
AboveThreshold(breakdown) ==
    Cardinality({c \in DOMAIN breakdown :
                   breakdown[c].percentage >= PASS_THRESHOLD})

ThresholdRule(breakdown) ==
    IF AboveThreshold(breakdown) = 3 THEN "PASS"
    ELSE IF AboveThreshold(breakdown) = 2 THEN "REVIEW"
    ELSE "FAIL"

\* C2: the overall recommendation stored with a result that has category
\* percentages is the one the threshold rule gives for them (PASS for three
\* categories at 70 or more, REVIEW for two, FAIL for one or none), at the
\* top level of the result or inside its analysis.
C2_RecommendationFollowsRule ==
    (result.exists /\ result.llm_analysis.shape = "formatted")
      => \/ result.recommendation
              = ThresholdRule(result.llm_analysis.category_breakdown)
         \/ result.llm_analysis.overall_assessment.recommendation
              = ThresholdRule(result.llm_analysis.category_breakdown)

Unparseable(text) ==
    /\ json_loads(text).type # "object"
    /\ fenced_json(text).type # "object"

\* C8: when the model's reply is no JSON object, neither directly nor in a
\* fenced json block, the run still succeeds with recommendation REVIEW and
\* a result that carries the raw text.
C8_UnparseableGivesReview ==
    (run.status = "done" /\ run.llm_calls = 1 /\ ~ run.llm.raises
        /\ Unparseable(run.llm.text))
      => /\ run.success
         /\ run.statusCode = 200
         /\ run.recommendation = "REVIEW"
         /\ run.saved => result.llm_analysis.raw_analysis = run.llm.text

TranscriptionFails(o) ==
    o.fetch = "raises" \/ o.job \in {"FAILED", "IN_PROGRESS", "ERROR"}

ReachesTranscription ==
    /\ run.status = "done"
    /\ run.fault \notin {"params", "creds", "state_read"}
    /\ session.exists
    /\ DOMAIN session.responses # {}

\* C9: a question whose transcription fails, raises or times out gets a
\* sentinel transcript, the other questions are still transcribed, the
\* transcript map has one entry for every response, and the model is
\* invoked.
C9_FailedTranscriptKeepsBatch ==
    ReachesTranscription
      => /\ DOMAIN run.transcripts = DOMAIN session.responses
         /\ \A q \in DOMAIN session.responses :
              /\ TranscriptionFails(run.outcomes[q])
                   => run.transcripts[q]
                        \in {TRANSCRIPTION_FAILED, TRANSCRIPTION_ERROR}
              /\ (~ TranscriptionFails(run.outcomes[q])
                    /\ run.outcomes[q].text # "")
                   => run.transcripts[q] = run.outcomes[q].text
         /\ run.llm_calls = 1

C9_Witness ==
    /\ ReachesTranscription
    /\ Cardinality(DOMAIN session.responses) = 2
    /\ TranscriptionFails(run.outcomes[session.questions_sequence[2]])
    /\ run.transcripts[session.questions_sequence[3]] = "said"
    /\ run.llm_calls = 1
    /\ run.success

----------------------------------------------------------------------------
(* Properties of the index *)

EntriesWithId(id) ==
    {i \in DOMAIN index.assessments : index.assessments[i].id = id}

\* C10: after an index update for an assessment the index holds exactly
\* one entry with its id, and total_count is the number of entries.
C10_OneEntryPerId ==
    /\ index.exists =>
         /\ index.total_count = Len(index.assessments)
         /\ \A id \in AssessmentIds : Cardinality(EntriesWithId(id)) <= 1
    /\ (lastUpdate.id # <<>> /\ lastUpdate.written)
         => Cardinality(EntriesWithId(lastUpdate.id)) = 1

C10_Witness ==
    /\ lastUpdate.written
    /\ lastUpdate.replaced
    /\ Len(index.assessments) = 2
    /\ index.total_count = 2

\* C23: an index update for one assessment keeps every entry of another
\* assessment that the stored index held, whether the read of the index
\* found it, found none or failed.
C23_UpdateKeepsOtherEntries ==
    [][ \A i \in DOMAIN index.assessments :
          index.assessments[i].id # lastUpdate'.id
            => \E j \in DOMAIN index'.assessments :
                 index'.assessments[j] = index.assessments[i] ]_vars

----------------------------------------------------------------------------
(* Properties of the call flow with failing operations *)

Markup(d) ==
    /\ d.content \in {"application/xml", "text/xml"}
    /\ Len(d.verbs) > 0

\* C11: every callback on /webhook, /webhook/recording and /webhook/gather
\* is answered with status 200 and a markup document, also when a read or a
\* write of the session store fails, the request is malformed or the
\* invocation of the processor fails; none is answered with the JSON error
\* response or with an exception.
C11_CallbackAnsweredWithMarkup ==
    lastCall.kind # "none"
      => /\ directive.statusCode = 200
         /\ Markup(directive)
         /\ directive # Raise

C11_Witness ==
    /\ lastCall.kind = "recording"
    /\ lastCall.fault = "read"
    /\ session.current_question_index >= 2
    /\ directive = create_twiml_response("processing", TRUE)

\* the callback is an accepted recording of the last question that is
\* recorded, and the handler gets as far as the next question
CompletesWith(call) ==
    /\ Accepted(call)
    /\ call.fault \notin {"read", "body"}
    /\ get_current_question(advance_to_next_question(
           get_assessment_state(session, role, now)))
         \in {"goodbye", NoQuestion}

\* C15: the callback that takes the session to completion is answered with
\* the completion directive and fires one invocation of the processor,
\* without any step of a scoring run; the completion directive is the
\* answer also when marking the session completed or firing the invocation
\* fails.
C15_CompletionFiresAndReplies ==
    [][ CompletesWith(lastCall')
          => /\ directive' = CompletionTwiml
             /\ invoked' = invoked + (IF lastCall'.fault \in {"mark_read", "invoke"}
                                      THEN 0 ELSE 1)
             /\ lastCall'.fault = "none" => session'.status = "completed"
             /\ UNCHANGED <<run, result, index>> ]_vars

C15_Witness ==
    /\ Accepted(lastCall)
    /\ lastCall.fault = "invoke"
    /\ directive = CompletionTwiml
    /\ session.status = "completed"
    /\ invoked = 0

\* C19: when the call flow fires the invocation of the processor, the
\* stored session has status completed.
C19_InvokedOnCompletedSession ==
    [][ invoked' # invoked => session'.status = "completed" ]_vars

----------------------------------------------------------------------------
(* Properties of the scoring run and the index *)

\* the run got as far as "Step 4: Save results"
ReachesSave ==
    /\ ReachesTranscription
    /\ analyze_with_llm_simple(run.llm).success
    /\ IsDict(analyze_with_llm_simple(run.llm).analysis)

\* C12: when the index update of a run fails, in reading, merging or
\* writing the index, the run still reports success and the result written
\* in that run is the stored result.
C12_IndexFailureKeepsResult ==
    (ReachesSave /\ run.fault \in {"index_read", "index_merge", "index_write"})
      => /\ run.success
         /\ run.statusCode = 200
         /\ result.exists
         /\ result.analyzed_at = now - 1
         /\ result.transcripts = run.transcripts
         /\ result.recommendation = run.recommendation

C12_Witness ==
    /\ ReachesSave
    /\ run.fault = "index_write"
    /\ run.success
    /\ result.exists
    /\ result.analyzed_at = now - 1
    /\ index.total_count = 1
    /\ ~ lastUpdate.written

\* C13 as stated: a run that repeats the transcripts and the model reply of
\* the run before it leaves the stored result as that run left it.
C13_RerunLeavesResult ==
    [][ (run'.repeats /\ run'.saved) => result' = result ]_vars

\* C13: a run that repeats the transcripts and the model reply of the run
\* before it overwrites the stored result with a document that differs
\* from the one before only in analyzed_at, the time of the later run.
C13_RerunRestampsResult ==
    [][ (run'.repeats /\ run'.saved)
          => /\ result' = [result EXCEPT !.analyzed_at = now]
             /\ result.exists
             /\ result.analyzed_at < now ]_vars

C13_Witness ==
    /\ run.repeats
    /\ run.saved
    /\ Cardinality(DOMAIN run.transcripts) = 2
    /\ \A q \in DOMAIN run.transcripts : run.outcomes[q].existing
    /\ result.analyzed_at = now - 1
    /\ lastUpdate.replaced

\* C14: a run submits no transcription job for a question that has a
\* completed job when the run starts.
C14_CompletedJobReused ==
    [][ now' # now => \A q \in jobs : q \notin run'.started ]_vars

IndexHolds(id) == \E i \in DOMAIN index.assessments : index.assessments[i].id = id

\* the runs that have written the index
Written == {u \in DOMAIN updaters : updaters[u].pc = "done"}

\* C20: when two runs have written the index, the index holds the entry of
\* the later writer, and it holds the entry of the earlier writer exactly
\* when the later writer read the index after the earlier one wrote it:
\* with the steps interleaved the index ends with one of the two entries.
C20_InterleavedUpdateLosesEntry ==
    \A u, w \in Written :
        (Written = {u, w} /\ updaters[u].wrote_at < updaters[w].wrote_at)
          => /\ IndexHolds(updaters[w].id)
             /\ IndexHolds(updaters[u].id)
                  <=> updaters[w].read_at > updaters[u].wrote_at

C20_Witness ==
    /\ Cardinality(Written) = 2
    /\ index.total_count = 1
    /\ \E u \in Written : ~ IndexHolds(updaters[u].id)

----------------------------------------------------------------------------
(* Properties of what one run reports and stores *)

\* the overall recommendation that the analysis of a result carries
AnalysisRecommendation(analysis) ==
    IF analysis.shape = "formatted"
    THEN analysis.overall_assessment.recommendation
    ELSE analysis.overall_recommendation

\* C24: after a successful run that stored its result and its index entry,
\* the recommendation of the response, the recommendation at the top level
\* of the result, the overall recommendation inside the analysis of the
\* result and, in lower case, the status of the index entry are the same.
C24_OneRecommendation ==
    (run.success /\ run.saved /\ result.exists /\ lastUpdate.written)
      => /\ run.recommendation = result.recommendation
         /\ result.recommendation = AnalysisRecommendation(result.llm_analysis)
         /\ \A i \in EntriesWithId(ASSESSMENT_ID) :
              index.assessments[i].status = Lower(result.recommendation)

\* C25: within a run the index is updated only after the result of that
\* run was written; a run whose write of the result fails leaves the index
\* as it was and attempts no index update.
C25_IndexAfterResult ==
    [][ /\ (ReachesSave' /\ run'.fault = "save")
             => /\ index' = index
                /\ lastUpdate' = lastUpdate
                /\ result' = result
        /\ (index' # index \/ lastUpdate' # lastUpdate)
             => /\ result'.exists
                /\ result'.analyzed_at = now
                /\ result'.transcripts = run'.transcripts ]_vars

C25_Witness ==
    /\ ReachesSave
    /\ run.fault = "save"
    /\ run.success
    /\ ~ result.exists
    /\ index.total_count = 1
    /\ index.last_updated = 1
    /\ lastUpdate = NoUpdate

\* the recording was fetched and its job, found or started, completed
JobCompleted(o) ==
    o.fetch = "ok" /\ (o.existing \/ o.job = "COMPLETED")

\* C26: the transcript of a question is a sentinel only when its job
\* failed, raised or timed out; a completed job gives the text of that job,
\* also when the text is empty.
C26_CompletedJobGivesItsText ==
    ReachesTranscription
      => \A q \in DOMAIN run.transcripts :
           JobCompleted(run.outcomes[q])
             => run.transcripts[q] = run.outcomes[q].text

\* C27: a run makes at most one request to the model service; the request
\* is made when every response of the session has its transcript or
\* sentinel, and its prompt carries all of them.
C27_OneRequestAfterTranscription ==
    /\ run.llm_calls <= 1
    /\ run.llm_calls = 1
         => /\ ReachesTranscription
            /\ DOMAIN run.transcripts = DOMAIN session.responses
            /\ run.prompted = DOMAIN run.transcripts

C27_Witness ==
    /\ run.llm_calls = 1
    /\ run.success
    /\ Cardinality(run.prompted) = 2
    /\ \E q \in run.prompted : run.transcripts[q] = TRANSCRIPTION_FAILED
    /\ \E q \in run.prompted : run.transcripts[q] = "said"

\* C28: the wait for one job makes at most MAX_WAIT / POLL_SLEEP status
\* checks, whatever the job does, and the batch comes to its end with a
\* transcript or sentinel for every response, also when a job stays in
\* progress for ever.
C28_PollingEnds ==
    /\ [](poll.checks <= MAX_WAIT \div POLL_SLEEP)
    /\ [](poll.pc = "done"
            => DOMAIN run.transcripts = DOMAIN session.responses)
    /\ <>(poll.pc = "done")

C28_Witness ==
    /\ poll.pc = "done"
    /\ poll.checks = MAX_WAIT \div POLL_SLEEP
    /\ poll.elapsed >= MAX_WAIT
    /\ \A q \in DOMAIN session.responses :
         run.transcripts[q] = TRANSCRIPTION_FAILED
    /\ Cardinality(DOMAIN session.responses) = 2

\* C30: a run that reports failure, for missing parameters or credentials,
\* a session that is missing or has no responses, no transcripts or a
\* failed model call, answers 400 or 500 and leaves the stored result and
\* the index as they were before the run.
C30_FailedRunWritesNothing ==
    [][ (now' # now /\ ~ run'.success)
          => /\ run'.statusCode \in {400, 500}
             /\ result' = result
             /\ index' = index
             /\ lastUpdate' = lastUpdate ]_vars

C30_Witness ==
    /\ ~ run.success
    /\ run.statusCode = 500
    /\ run.llm_calls = 1
    /\ run.llm.raises
    /\ result.exists
    /\ result.analyzed_at < now - 1
    /\ index.exists
    /\ index.last_updated = result.analyzed_at

----------------------------------------------------------------------------
(* Properties of the stored responses *)

\* C22: an accepted recording callback stores its response under the
\* question the session was on when the handler read it, that is under
\* questions_sequence[current_question_index] before the advance, whatever
\* callbacks came before, duplicates and late deliveries included.
C22_ResponseUnderCurrentQuestion ==
    [][ Accepted(lastCall')
          => /\ session.exists
             /\ lastCall'.question = get_current_question(session)
             /\ lastCall'.question \in DOMAIN session'.responses ]_vars

\* C29: the stored status is in_progress or completed; a session is created
\* in_progress; the status changes only from in_progress to completed, in a
\* callback that is answered with the completion directive; a completed
\* session stays completed, and a failing callback stores no other status.
C29_StatusOnlyCompletes ==
    /\ [](session.exists => session.status \in {"in_progress", "completed"})
    /\ [][ (~ session.exists /\ session'.exists)
             => session'.status = "in_progress" ]_vars
    /\ [][ session.exists
             => /\ session'.exists
                /\ session.status = "completed"
                     => session'.status = "completed"
                /\ session'.status # session.status
                     => /\ session'.status = "completed"
                        /\ session'.completed_at = now
                        /\ directive' = CompletionTwiml ]_vars

C29_Witness ==
    /\ session.status = "completed"
    /\ session.completed_at < now - MaxLate
    /\ nreplays = MaxLate
    /\ nfaults > 0
    /\ lastCall.kind = "recording"
    /\ Accepted(lastCall)
    /\ lastCall.question \in DOMAIN session.responses

----------------------------------------------------------------------------
(* Properties of deliveries handled at the same time *)

AllHandled == \A h \in DOMAIN handlers : handlers[h].pc = "done"

\* the session as the first of the handlers read it
FirstSeen ==
    LET h == CHOOSE g \in DOMAIN handlers :
                \A k \in DOMAIN handlers : handlers[g].read_at <= handlers[k].read_at
    IN  handlers[h].seen

\* C21: when two deliveries of the same accepted recording callback have
\* been handled, each with its own read and write of the session, in
\* whatever order their steps ran, current_question_index is one more than
\* before the deliveries and the response of that question is stored.
C21_ConcurrentDeliveriesAdvanceOnce ==
    (handlers # <<>> /\ AllHandled /\ Accepted(lastCall))
      => /\ session.current_question_index
              = FirstSeen.current_question_index + 1
         /\ lastCall.question \in DOMAIN session.responses

----------------------------------------------------------------------------
(* Properties of the reported outcome of a run *)

\* C31: a run that reports success has written its result: the stored
\* result is the document of this run; a run whose write of the result
\* failed does not report success.
C31_SuccessMeansStored ==
    (run.status = "done" /\ run.success)
      => /\ result.exists
         /\ result.analyzed_at = now - 1
         /\ result.transcripts = run.transcripts
         /\ result.recommendation = run.recommendation

----------------------------------------------------------------------------
(* Properties of the evaluation request and the catalogue *)

\* the questions of the role's baseline and knowledge categories
CheckedQuestions(skill) ==
    SCORING_CATEGORIES[skill].baseline \cup SCORING_CATEGORIES[skill].knowledge

\* C32: every question of the baseline or knowledge category that has a
\* transcript is in the request with the descriptions of a rubric entry of
\* the catalogue, not with the generic experience rubric, and no other
\* question of the role is given that entry.
C32_QuestionGetsOwnRubric ==
    run.status = "prompted"
      => \A q \in DOMAIN run.transcripts \cap CheckedQuestions(role) :
           /\ q \in run.prompted
           /\ run.rubrics[q] # GenericRubric
           /\ \A p \in Recordable(role) \ {q} :
                question_details(role, p) # run.rubrics[q]

----------------------------------------------------------------------------
(* Properties of the recording windows *)

\* C33: a recording that comes from the long window, ended by no repeat
\* key, is accepted whatever its duration: the reply is not the re-prompt,
\* its response is stored and current_question_index advances.
C33_LongWindowAccepted ==
    [][ (/\ lastCall'.kind = "recording"
         /\ ~ lastCall'.replay
         /\ lastCall'.window = LONG_TIMEOUT
         /\ lastCall'.digits # "*")
          => /\ directive' # TimeoutTwiml(lastCall'.question)
             /\ lastCall'.question \in DOMAIN session'.responses
             /\ session'.responses[lastCall'.question].recording_url
                  = lastCall'.recording_url
             /\ session'.current_question_index
                  = session.current_question_index + 1 ]_vars

\* C34: a recording callback that takes current_question_index past a
\* recorded question leaves a response of that question stored.
C34_AdvancedQuestionHasResponse ==
    [][ lastCall'.kind = "recording"
          => \A q \in Recordable(role) :
               (AdvancedPast(session', q) /\ ~ AdvancedPast(session, q))
                 => q \in DOMAIN session'.responses ]_vars

----------------------------------------------------------------------------
(* Properties of the position in the question sequence *)

\* C35: the stored current_question_index is at least 0 and at most the
\* length of the question sequence, whatever callbacks the session has
\* received, also after it was completed.
C35_IndexWithinSequence ==
    session.exists
      => /\ session.current_question_index >= 0
         /\ session.current_question_index <= Len(session.questions_sequence)

\* the scoring categories of the role that list question q
CategoriesOf(skill, q) ==
    {c \in DOMAIN SCORING_CATEGORIES[skill] : q \in SCORING_CATEGORIES[skill][c]}

\* C36: the question lists of the scoring categories of the role are
\* pairwise disjoint and together are the recorded questions of the role's
\* question sequence, so every question of the request is in exactly one
\* category.
C36_CategoriesPartitionQuestions ==
    /\ \A a, b \in DOMAIN SCORING_CATEGORIES[role] :
         a # b => SCORING_CATEGORIES[role][a] \cap SCORING_CATEGORIES[role][b] = {}
    /\ UNION {SCORING_CATEGORIES[role][c] : c \in DOMAIN SCORING_CATEGORIES[role]}
         = Recordable(role)
    /\ \A q \in DOMAIN run.transcripts \cup run.prompted :
         Cardinality(CategoriesOf(role, q)) = 1

C36_Witness ==
    /\ run.status = "prompted"
    /\ role = "bartender"
    /\ "knowledge_service" \in run.prompted
    /\ {CategoriesOf(role, q) : q \in run.prompted}
         = {{"baseline"}, {"experience"}, {"knowledge"}}

----------------------------------------------------------------------------
(* Properties of the order of the index *)

\* C37: after every index update the entries of the index are in the order
\* of analyzed_at, newest first.
C37_IndexNewestFirst ==
    \A i, j \in DOMAIN index.assessments :
      i < j => index.assessments[i].analyzed_at
                 >= index.assessments[j].analyzed_at

C37_Witness ==
    /\ lastUpdate.written
    /\ Len(index.assessments) = 2
    /\ index.assessments[2].id = lastUpdate.id
    /\ index.assessments[1].analyzed_at > index.assessments[2].analyzed_at
    /\ index.last_updated = now - 1

----------------------------------------------------------------------------
(* Properties of the formatted category breakdown                          *)

\* C38: in the formatted analysis a category's status is the pass marker
\* exactly when the percentage the model returned for it is 70 or more, and
\* the below-70 marker otherwise; a category without data counts as 0
\* percent and is marked below 70.
C38_StatusFollowsPercentage ==
    run.status = "formatted" =>
        LET json == run.llm.text.json
            breakdown == result.llm_analysis.category_breakdown
        IN  /\ result.llm_analysis.shape = "formatted"
            /\ \A c \in DOMAIN breakdown :
                  /\ breakdown[c].status \in {"PASS", "BELOW 70%"}
                  /\ c \in json.scored =>
                        (breakdown[c].status = "PASS"
                           <=> 10 * json.percentage[c] + json.tenths[c] >= 700)
                  /\ c \notin json.scored =>
                        /\ breakdown[c].percentage = 0
                        /\ breakdown[c].status = "BELOW 70%"

\* formatted: one category at exactly 70 passes, one just under 70 is below
\* 70, one without data is below 70
C38_Witness ==
    /\ run.status = "formatted"
    /\ LET json == run.llm.text.json
           breakdown == result.llm_analysis.category_breakdown
       IN  \E a, b, c \in DOMAIN breakdown :
             /\ a \in json.scored /\ json.percentage[a] = 70
             /\ json.tenths[a] = 0 /\ breakdown[a].status = "PASS"
             /\ b \in json.scored /\ json.percentage[b] = 69
             /\ json.tenths[b] = 6 /\ breakdown[b].status = "BELOW 70%"
             /\ c \notin json.scored /\ breakdown[c].status = "BELOW 70%"

====
